---- MODULE Spec2Model ----
(***************************************************************************)
(* m5::container::CircularBuffer<T> (M5Utility, circular_buffer.hpp): a    *)
(* fixed-capacity double-ended ring over a std::vector<T>, with the        *)
(* indices _head, _tail and the flag _full.                                *)
(*                                                                         *)
(* The object is the record cb with the members' names.  Every member      *)
(* function is an operator from the object (and its arguments) to the      *)
(* object after the call; an action applies one member function and notes  *)
(* the call (op, arg), the object before the call (pre) and what the call  *)
(* returned (res).                                                         *)
(***************************************************************************)
EXTENDS Integers, Sequences, FiniteSets, TLC

\* Largest capacity a buffer is constructed with.
MaxCap == 3
\* Elements are 0..MaxValue; 0 is T{}, what vector::resize fills in.
MaxValue == 1
\* Width of size_t in bits: index arithmetic is modulo 2^SizeBits.
SizeBits == 5

Value == 0..MaxValue
SizeMod == 2 ^ SizeBits
\* Largest count, range length or read length a caller passes.
MaxCount == MaxCap + 1

Min(a, b) == IF a <= b THEN a ELSE b

\* size_t arithmetic: an unsigned result wraps modulo 2^SizeBits.
Wrap(x) == x % SizeMod

\* Fault: x - 1 + cap, the reduction modulo cap left out.
Dec_no_mod(x, cap) == Wrap(Wrap(x - 1) + cap)

\* (x - 1 + cap) % cap, evaluated left to right in size_t.
Dec(x, cap) == Wrap(Wrap(x - 1) + cap) % cap

\* (x + 1) % cap in size_t.
Inc(x, cap) == Wrap(x + 1) % cap

\* optional<value_type>
nullopt == [has_value |-> FALSE]
make_optional(v) == [has_value |-> TRUE, value |-> v]

----------------------------------------------------------------------------
(* Capacity *)

full(s) == s._full

\* Fault: empty() decided by the indices alone, the flag not consulted.
empty_noflag(s) == s._head = s._tail

empty(s) == ~full(s) /\ (s._head = s._tail)

size(s) ==
    IF full(s) THEN s._cap
    ELSE IF s._head >= s._tail THEN Wrap(s._head - s._tail)
         ELSE Wrap(Wrap(s._cap + s._head) - s._tail)

capacity(s) == s._cap

----------------------------------------------------------------------------
(* Constructor and modifiers *)

\* Fault: a constructor that resizes the storage and does not set _cap.
CircularBuffer_no_cap(n) ==
    [_buf  |-> [i \in 0..(n - 1) |-> 0],
     _cap  |-> 0,
     _head |-> 0,
     _tail |-> 0,
     _full |-> FALSE]

\* explicit CircularBuffer(const size_t n): the assertion admits n != 0;
\* the other members keep their default initialisers.
CircularBuffer(n) ==
    [_buf  |-> [i \in 0..(n - 1) |-> 0],
     _cap  |-> n,
     _head |-> 0,
     _tail |-> 0,
     _full |-> FALSE]

\* Fault: clear() that resets the indices and leaves _full as it is.
clear_keep_full(s) == [s EXCEPT !._head = 0, !._tail = 0]

\* Fault: clear() that also resets every storage slot to T{}.
clear_zeroes(s) ==
    [s EXCEPT !._full = FALSE, !._head = 0, !._tail = 0,
              !._buf = [i \in DOMAIN s._buf |-> 0]]

clear(s) == [s EXCEPT !._full = FALSE, !._head = 0, !._tail = 0]

\* Fault: push_front() that writes the slot before it moves _tail.
push_front_write_first(s, v) ==
    LET tail == Dec(s._tail, s._cap)
        head == IF s._full THEN Dec(s._head, s._cap) ELSE s._head
    IN  [s EXCEPT !._buf  = [s._buf EXCEPT ![s._tail] = v],
                  !._tail = tail,
                  !._head = head,
                  !._full = (head = tail)]

push_front(s, v) ==
    LET tail == Dec(s._tail, s._cap)
        head == IF s._full THEN Dec(s._head, s._cap) ELSE s._head
    IN  [s EXCEPT !._tail = tail,
                  !._buf  = [s._buf EXCEPT ![tail] = v],
                  !._head = head,
                  !._full = (head = tail)]

\* Fault: push_back() whose _head is not reduced modulo the capacity.
push_back_nowrap(s, v) ==
    LET head == Wrap(s._head + 1)
        tail == IF s._full THEN Inc(s._tail, s._cap) ELSE s._tail
    IN  [s EXCEPT !._buf  = [s._buf EXCEPT ![s._head] = v],
                  !._head = head,
                  !._tail = tail,
                  !._full = (head = tail)]

\* Fault: push_back() that never advances _tail, full or not.
push_back_no_evict(s, v) ==
    LET head == Inc(s._head, s._cap)
    IN  [s EXCEPT !._buf  = [s._buf EXCEPT ![s._head] = v],
                  !._head = head,
                  !._full = (head = s._tail)]

push_back(s, v) ==
    LET head == Inc(s._head, s._cap)
        tail == IF s._full THEN Inc(s._tail, s._cap) ELSE s._tail
    IN  [s EXCEPT !._buf  = [s._buf EXCEPT ![s._head] = v],
                  !._head = head,
                  !._tail = tail,
                  !._full = (head = tail)]

\* Fault: pop_front() that leaves _full set.
pop_front_keep_full(s) ==
    IF ~empty(s) THEN [s EXCEPT !._tail = Inc(s._tail, s._cap)] ELSE s

\* Fault: pop_front() without the emptiness test.
pop_front_unguarded(s) ==
    [s EXCEPT !._tail = Inc(s._tail, s._cap), !._full = FALSE]

pop_front(s) ==
    IF ~empty(s)
    THEN [s EXCEPT !._tail = Inc(s._tail, s._cap), !._full = FALSE]
    ELSE s

\* Fault: pop_back() that computes (_head - 1) % _cap, without the + _cap.
pop_back_no_cap(s) ==
    IF ~empty(s)
    THEN [s EXCEPT !._head = Wrap(s._head - 1) % s._cap, !._full = FALSE]
    ELSE s

pop_back(s) ==
    IF ~empty(s)
    THEN [s EXCEPT !._head = Dec(s._head, s._cap), !._full = FALSE]
    ELSE s

\* Fault: fill() that does not set _full.
fill_no_full(s, v) ==
    LET c == clear(s)
    IN  [c EXCEPT !._buf = [i \in DOMAIN c._buf |-> v]]

fill(s, v) ==
    LET c == clear(s)
    IN  [c EXCEPT !._buf = [i \in DOMAIN c._buf |-> v], !._full = TRUE]

\* while (n--) { push_back(*first++); } over the source range src, whose
\* iterator first is the 1-based position in src.
RECURSIVE push_back_range(_, _, _, _)
push_back_range(s, src, first, n) ==
    IF n = 0 THEN s
    ELSE push_back_range(push_back(s, src[first]), src, first + 1, n - 1)

\* Fault: assign(first, last) that does not skip the first sz - _cap
\* elements of a source longer than the capacity.
assign_range_no_skip(s, src) ==
    LET c == clear(s)
    IN  push_back_range(c, src, 1, Min(c._cap, Len(src)))

\* Fault: assign(first, last) that inserts with push_front.
RECURSIVE push_front_range(_, _, _, _)
push_front_range(s, src, first, n) ==
    IF n = 0 THEN s
    ELSE push_front_range(push_front(s, src[first]), src, first + 1, n - 1)

assign_range_push_front(s, src) ==
    LET c     == clear(s)
        sz    == Len(src)
        first == IF sz > c._cap THEN 1 + (sz - c._cap) ELSE 1
    IN  push_front_range(c, src, first, Min(c._cap, sz))

\* Fault: assign(first, last) without the clear().
assign_range_no_clear(s, src) ==
    LET sz    == Len(src)
        first == IF sz > s._cap THEN 1 + (sz - s._cap) ELSE 1
    IN  push_back_range(s, src, first, Min(s._cap, sz))

\* assign(InputIterator first, InputIterator last); src is [first, last).
assign_range(s, src) ==
    LET c     == clear(s)
        sz    == Len(src)
        first == IF sz > c._cap THEN 1 + (sz - c._cap) ELSE 1
        n     == Min(c._cap, sz)
    IN  push_back_range(c, src, first, n)

\* while (n--) { push_back(v); }
RECURSIVE push_back_copies(_, _, _)
push_back_copies(s, n, v) ==
    IF n = 0 THEN s ELSE push_back_copies(push_back(s, v), n - 1, v)

\* Fault: assign(n, v) without the clear().
assign_n_no_clear(s, n, v) == push_back_copies(s, Min(s._cap, n), v)

\* assign(size_type n, const_reference v)
assign_n(s, n, v) ==
    LET c == clear(s)
    IN  push_back_copies(c, Min(c._cap, n), v)

\* CircularBuffer(const size_type n, const_reference value)
CircularBuffer_value(n, v) == assign_n(CircularBuffer(n), n, v)

\* CircularBuffer(const size_type n, InputIter first, InputIter last) and
\* CircularBuffer(const size_type n, std::initializer_list<T> il)
CircularBuffer_range(n, src) == assign_range(CircularBuffer(n), src)

\* FixedCircularBuffer<T, N>(const size_type n, const_reference value)
FixedCircularBuffer_value(N, n, v) == assign_n(CircularBuffer(N), n, v)

----------------------------------------------------------------------------
(* Element access *)

front(s) == IF ~empty(s) THEN make_optional(s._buf[s._tail]) ELSE nullopt

\* Fault: back() that reads the slot at _head, one past the last element.
back_at_head(s) ==
    IF ~empty(s) THEN make_optional(s._buf[s._head]) ELSE nullopt

back(s) ==
    IF ~empty(s) THEN make_optional(s._buf[Dec(s._head, s._cap)]) ELSE nullopt

\* const_reference operator[](size_type i): what its two assertions
\* evaluate to and the element it returns a reference to.
operator_index(s, i) ==
    [container_empty |-> size(s) > 0,
     index_overflow  |-> i < size(s),
     value           |-> s._buf[Wrap(s._tail + i) % s._cap]]

\* Fault: at() that admits i == size().
at_off_by_one(s, i) ==
    IF ~empty(s) /\ i <= size(s)
    THEN make_optional(s._buf[Wrap(s._tail + i) % s._cap])
    ELSE nullopt

at(s, i) ==
    IF ~empty(s) /\ i < size(s)
    THEN make_optional(s._buf[Wrap(s._tail + i) % s._cap])
    ELSE nullopt

\* std::copy(src, src + elms, outbuf) with src = &_buf[from] and outbuf
\* advanced by to: the caller's array is a function on 0..(length - 1).
copy(buf, from, elms, outbuf, to) ==
    [i \in DOMAIN outbuf |->
        IF to <= i /\ i < to + elms THEN buf[from + (i - to)] ELSE outbuf[i]]

\* Fault: read() that stops at the end of storage, the second run omitted.
read_one_run(s, outbuf, num) ==
    LET sz == Min(num, size(s))
    IN  IF sz = 0 THEN [self |-> s, outbuf |-> outbuf, ret |-> sz]
        ELSE
          LET elms == Min(Wrap(s._cap - s._tail), sz)
          IN  [self   |-> s,
               outbuf |-> copy(s._buf, s._tail, elms, outbuf, 0),
               ret    |-> elms]

\* Fault: read() that advances the member _tail past the first run, as its
\* local copy is advanced.
read_moves_tail(s, outbuf, num) ==
    LET sz == Min(num, size(s))
    IN  IF sz = 0 THEN [self |-> s, outbuf |-> outbuf, ret |-> sz]
        ELSE
          LET tail  == s._tail
              elms  == Min(Wrap(s._cap - tail), sz)
              out1  == copy(s._buf, tail, elms, outbuf, 0)
              tail2 == Wrap(tail + elms) % s._cap
              moved == [s EXCEPT !._tail = tail2]
          IN  IF elms < sz
              THEN LET elms2 == sz - elms
                       out2  == copy(s._buf, tail2, elms2, out1, elms)
                   IN  [self |-> moved, outbuf |-> out2, ret |-> elms + elms2]
              ELSE [self |-> moved, outbuf |-> out1, ret |-> elms]

\* size_t read(value_type* outbuf, const size_t num): the object after the
\* call, the caller's array after the call, and the returned count.
read(s, outbuf, num) ==
    LET sz == Min(num, size(s))
    IN  IF sz = 0 THEN [self |-> s, outbuf |-> outbuf, ret |-> sz]
        ELSE
          LET tail  == s._tail
              elms  == Min(Wrap(s._cap - tail), sz)
              out1  == copy(s._buf, tail, elms, outbuf, 0)
              tail2 == Wrap(tail + elms) % s._cap
              ret   == elms
          IN  IF elms < sz
              THEN LET elms2 == sz - elms
                       out2  == copy(s._buf, tail2, elms2, out1, elms)
                   IN  [self |-> s, outbuf |-> out2, ret |-> ret + elms2]
              ELSE [self |-> s, outbuf |-> out1, ret |-> ret]

\* read() statement by statement, for runs in which an interrupt handler
\* runs between two statements.  f holds num, the locals sz, tail, elms and
\* ret, the caller's array, and pc, the statement to run next.

\* size_t sz = std::min(num, size()); if (sz == 0) { return sz; }
read_size(f, s) ==
    LET sz == Min(f.num, size(s))
    IN  IF sz = 0
        THEN [f EXCEPT !.sz = sz, !.ret = sz, !.pc = "return"]
        ELSE [f EXCEPT !.sz = sz, !.pc = "tail"]

\* auto tail = _tail; auto src = &_buf[tail];
\* size_t elms = std::min(_cap - tail, sz);
read_tail(f, s) ==
    LET tail == s._tail
    IN  [f EXCEPT !.tail = tail,
                  !.elms = Min(Wrap(s._cap - tail), f.sz),
                  !.pc = "first_run"]

\* Fault: the first run copied from the member _tail as it is now, not from
\* the local taken before.
read_first_run_from_member(f, s) ==
    [f EXCEPT !.outbuf = copy(s._buf, s._tail, f.elms, f.outbuf, 0),
              !.tail = Wrap(s._tail + f.elms) % s._cap,
              !.ret = f.elms,
              !.pc = IF f.elms < f.sz THEN "second_run" ELSE "return"]

\* std::copy(src, src + elms, outbuf); tail = (tail + elms) % _cap;
\* size_t ret = elms; if (elms < sz) ...
read_first_run(f, s) ==
    [f EXCEPT !.outbuf = copy(s._buf, f.tail, f.elms, f.outbuf, 0),
              !.tail = Wrap(f.tail + f.elms) % s._cap,
              !.ret = f.elms,
              !.pc = IF f.elms < f.sz THEN "second_run" ELSE "return"]

\* outbuf += elms; src = &_buf[tail]; elms = sz - elms;
\* std::copy(src, src + elms, outbuf); ret += elms;
read_second_run(f, s) ==
    LET elms == f.sz - f.elms
    IN  [f EXCEPT !.outbuf = copy(s._buf, f.tail, elms, f.outbuf, f.elms),
                  !.elms = elms,
                  !.ret = f.ret + elms,
                  !.pc = "return"]

----------------------------------------------------------------------------
(* Iterators *)

\* iterator(CircularBuffer* buf, size_t pos) and the const_iterator of the
\* same shape: the buffer pointed to and a position that is not reduced
\* modulo the capacity.
iterator(buf, pos) == [_buffer |-> buf, _pos |-> pos]

\* The one buffer an iterator of this model points to.
this == "cb"

begin(s) == iterator(this, s._tail)

\* Fault: end() at the physical index _head.
end_at_head(s) == iterator(this, s._head)

end(s) == iterator(this, Wrap(s._tail + size(s)))

cbegin(s) == iterator(this, s._tail)

cend(s) == iterator(this, Wrap(s._tail + size(s)))

\* operator*: _buffer->_buf[_pos % _buffer->capacity()]
deref(s, it) == s._buf[it._pos % capacity(s)]

\* operator++
incr(it) == [it EXCEPT !._pos = Wrap(it._pos + 1)]

\* operator== and operator!=
iter_eq(a, b) == a._buffer = b._buffer /\ a._pos = b._pos
iter_ne(a, b) == ~iter_eq(a, b)

\* for (auto it = first; it != last; ++it) visit(*it): the elements visited.
RECURSIVE for_each(_, _, _, _)
for_each(s, it, last, visited) ==
    IF iter_ne(it, last)
    THEN for_each(s, incr(it), last, Append(visited, deref(s, it)))
    ELSE visited

\* operator--
decr(it) == [it EXCEPT !._pos = Wrap(it._pos - 1)]

\* std::reverse_iterator<iterator>(it): it keeps the iterator as current.
reverse_iterator(it) == [current |-> it]

\* Fault: rbegin() built on the physical index _head.
rbegin_at_head(s) == reverse_iterator(iterator(this, s._head))

rbegin(s) == reverse_iterator(end(s))

rend(s) == reverse_iterator(begin(s))

crbegin(s) == reverse_iterator(cend(s))

crend(s) == reverse_iterator(cbegin(s))

\* reverse_iterator::operator*: Iterator tmp = current; return *--tmp;
rderef(s, r) == deref(s, decr(r.current))

\* reverse_iterator::operator++: --current
rincr(r) == [r EXCEPT !.current = decr(r.current)]

\* reverse_iterator's operator!=: the two current iterators differ.
riter_ne(x, y) == iter_ne(x.current, y.current)

\* for (auto it = first; it != last; ++it) visit(*it), reverse iterators.
RECURSIVE for_each_reverse(_, _, _, _)
for_each_reverse(s, r, last, visited) ==
    IF riter_ne(r, last)
    THEN for_each_reverse(s, rincr(r), last, Append(visited, rderef(s, r)))
    ELSE visited

----------------------------------------------------------------------------
(* The callers' inputs *)

\* A caller's array of num slots, none written yet: the mark is no element.
Unwritten == MaxValue + 1
NewArray(num) == [i \in 0..(num - 1) |-> Unwritten]

\* A source range of len elements start, start + 1, ... (within Value).
Run(start, len) == [i \in 1..len |-> (start + i - 1) % (MaxValue + 1)]
Sources == {Run(start, len) : start \in Value, len \in 0..MaxCount}

\* Every range of at most MaxCount elements, for the constructors.
AllSources == UNION {[1..len -> Value] : len \in 0..MaxCount}

NoArg == [v |-> 0, n |-> 0, src |-> << >>]
Void  == [ret |-> 0, outbuf |-> NewArray(0)]

----------------------------------------------------------------------------
(* The state machine *)

VARIABLES
    cb,     \* the buffer object: _buf, _cap, _head, _tail, _full
    n,      \* the capacity the constructor was given
    op,     \* the member function called last
    arg,    \* its arguments
    pre,    \* the object before that call
    res,    \* what the call returned: read's count and the caller's array
    log,    \* a scripted run's calls so far, in order (empty otherwise)
    ndebug, \* the build defines NDEBUG, so assert() expands to nothing
    rd,     \* the activation of read() in progress, for interleaved runs
    heap,   \* two-buffer runs: the element arrays the vectors own, by id
    bufA,   \* two-buffer runs: a FixedCircularBuffer<T, N>
    bufB    \* two-buffer runs: a CircularBuffer<T>

vars == <<cb, n, op, arg, pre, res, log, ndebug, rd, heap, bufA, bufB>>

\* No read() is in progress.
NoRead == [pc |-> "idle", num |-> 0, sz |-> 0, tail |-> 0, elms |-> 0,
           outbuf |-> NewArray(0), ret |-> 0,
           irq |-> [at |-> "none", v |-> 0]]

\* The second and third object of a two-buffer run, where there is none.
NoBuffer == [_buf |-> 0, _cap |-> 0, _head |-> 0, _tail |-> 0, _full |-> FALSE]

\* The object as the constructor named ctor leaves it.
Constructed(ctor, a, obj) ==
    /\ cb = obj
    /\ op = ctor
    /\ arg = a
    /\ pre = obj
    /\ res = Void
    /\ log = << >>
    /\ rd = NoRead
    /\ heap = << >>
    /\ bufA = NoBuffer
    /\ bufB = NoBuffer

\* CircularBuffer(n) and FixedCircularBuffer<T, n>()
InitCapacity ==
    Constructed("CircularBuffer", [NoArg EXCEPT !.n = n], CircularBuffer(n))

\* CircularBuffer(n, value)
InitValue == \E v \in Value :
    Constructed("CircularBuffer_value", [NoArg EXCEPT !.n = n, !.v = v],
                CircularBuffer_value(n, v))

\* CircularBuffer(n, first, last), CircularBuffer(n, il) and the
\* FixedCircularBuffer<T, n> constructors from a range or a list
InitRange == \E src \in AllSources :
    Constructed("CircularBuffer_range", [NoArg EXCEPT !.src = src],
                CircularBuffer_range(n, src))

\* FixedCircularBuffer<T, n>(count, value)
InitFixedValue == \E c \in 0..MaxCount, v \in Value :
    Constructed("FixedCircularBuffer_value", [NoArg EXCEPT !.n = c, !.v = v],
                FixedCircularBuffer_value(n, c, v))

Init ==
    /\ n \in 1..MaxCap
    /\ ndebug = FALSE
    /\ \/ InitCapacity
       \/ InitValue
       \/ InitRange
       \/ InitFixedValue

\* A call of a void member function: the object becomes post.
Call(name, a, post) ==
    /\ cb' = post
    /\ op' = name
    /\ arg' = a
    /\ pre' = cb
    /\ res' = Void
    /\ UNCHANGED <<n, log, ndebug, rd, heap, bufA, bufB>>

PushFront == \E v \in Value :
    Call("push_front", [NoArg EXCEPT !.v = v], push_front(cb, v))

PushBack == \E v \in Value :
    Call("push_back", [NoArg EXCEPT !.v = v], push_back(cb, v))

PopFront == Call("pop_front", NoArg, pop_front(cb))

PopBack == Call("pop_back", NoArg, pop_back(cb))

Clear == Call("clear", NoArg, clear(cb))

Fill == \E v \in Value :
    Call("fill", [NoArg EXCEPT !.v = v], fill(cb, v))

AssignN == \E c \in 0..MaxCount, v \in Value :
    Call("assign_n", [NoArg EXCEPT !.n = c, !.v = v], assign_n(cb, c, v))

AssignRange == \E src \in Sources :
    Call("assign_range", [NoArg EXCEPT !.src = src], assign_range(cb, src))

Read == \E num \in 0..MaxCount :
    LET r == read(cb, NewArray(num), num)
    IN  /\ cb' = r.self
        /\ op' = "read"
        /\ arg' = [NoArg EXCEPT !.n = num]
        /\ pre' = cb
        /\ res' = [ret |-> r.ret, outbuf |-> r.outbuf]
        /\ UNCHANGED <<n, log, ndebug, rd, heap, bufA, bufB>>

Next ==
    \/ PushFront
    \/ PushBack
    \/ PopFront
    \/ PopBack
    \/ Clear
    \/ Fill
    \/ AssignN
    \/ AssignRange
    \/ Read

Spec == Init /\ [][Next]_vars

----------------------------------------------------------------------------
(* Scripted runs: a buffer constructed empty, then at most MaxSteps calls   *)
(* of push_back, push_front, pop_front and pop_back, each noted in log.     *)
(* As in cb_basic_test the pushes carry the values 1, 2, 3, ... in turn.    *)

\* The capacity of cb_basic_test's buffer, the largest of a scripted run.
ScenarioCap == 4
\* Longest scripted run.
MaxSteps == 7

IsPush(name) == name \in {"push_back", "push_front"}

Pops == {"pop_front", "pop_back"}

\* The value the next push of the run carries.
NextValue == 1 + Cardinality({i \in 1..Len(log) : IsPush(log[i])})

InitScript ==
    /\ n \in 1..ScenarioCap
    /\ ndebug = FALSE
    /\ InitCapacity

\* One more call of the run.
Step(name, a, post) ==
    /\ Len(log) < MaxSteps
    /\ cb' = post
    /\ op' = name
    /\ arg' = a
    /\ pre' = cb
    /\ res' = Void
    /\ log' = Append(log, name)
    /\ UNCHANGED <<n, ndebug, rd, heap, bufA, bufB>>

StepPushBack ==
    Step("push_back", [NoArg EXCEPT !.v = NextValue], push_back(cb, NextValue))

StepPushFront ==
    Step("push_front", [NoArg EXCEPT !.v = NextValue], push_front(cb, NextValue))

StepPopFront == Step("pop_front", NoArg, pop_front(cb))

StepPopBack == Step("pop_back", NoArg, pop_back(cb))

NextScript ==
    \/ StepPushBack
    \/ StepPushFront
    \/ StepPopFront
    \/ StepPopBack

SpecScript == InitScript /\ [][NextScript]_vars

----------------------------------------------------------------------------
(* Builds: the constructor's only check of its capacity is an assert(),    *)
(* which a build that defines NDEBUG compiles to nothing.  A run starts    *)
(* with the build and any capacity from 0; a call that indexes the empty   *)
(* vector or takes a remainder by a zero capacity has undefined behaviour  *)
(* and ends the run.                                                       *)

\* Fault: a check that no size_t fails.
assert_always_true(nd, k) == nd \/ k >= 0

\* assert(n != 0 && "Illegal size") lets the constructor continue.
assert_illegal_size(nd, k) == nd \/ k # 0

\* The members as their default initialisers leave them, before the
\* constructor's body runs.
DefaultMembers ==
    [_buf |-> [i \in 0..(-1) |-> 0], _cap |-> 0, _head |-> 0, _tail |-> 0,
     _full |-> FALSE]

\* The assertion failed: abort() ends the program inside the constructor.
InitAborted == Constructed("abort", [NoArg EXCEPT !.n = n], DefaultMembers)

InitBuild ==
    /\ n \in 0..MaxCap
    /\ ndebug \in BOOLEAN
    /\ IF assert_illegal_size(ndebug, n)
       THEN InitCapacity \/ InitValue
       ELSE InitAborted

\* The program is running and cb is a constructed object.
Alive == op \notin {"abort", "undefined_behaviour"}

\* The call indexes _buf[_head] or _buf[_tail] of an empty vector and
\* takes a remainder by _cap = 0.
UndefinedCall(name, a) ==
    /\ op' = "undefined_behaviour"
    /\ arg' = a
    /\ pre' = cb
    /\ UNCHANGED <<cb, res, n, log, ndebug, rd, heap, bufA, bufB>>

\* push_front and push_back always take the remainder.
BuildPush ==
    /\ Alive
    /\ IF capacity(cb) # 0
       THEN PushFront \/ PushBack
       ELSE \E name \in {"push_front", "push_back"}, v \in Value :
                UndefinedCall(name, [NoArg EXCEPT !.v = v])

\* pop_front and pop_back take it unless empty() returns first.
BuildPop ==
    /\ Alive
    /\ IF capacity(cb) # 0 \/ empty(cb)
       THEN PopFront \/ PopBack
       ELSE \E name \in Pops : UndefinedCall(name, NoArg)

\* clear and fill take no remainder and index nothing.
BuildReset ==
    /\ Alive
    /\ (Clear \/ Fill)

NextBuild ==
    \/ BuildPush
    \/ BuildPop
    \/ BuildReset

SpecBuild == InitBuild /\ [][NextBuild]_vars

----------------------------------------------------------------------------
(* Interrupts: a polling loop calls read() while an interrupt handler that *)
(* calls push_back may run between any two statements of read(), at most   *)
(* once during one call.  Between reads the loop and the handler push and  *)
(* pop as in any run.                                                      *)

Idle == rd.pc = "idle"

\* The loop calls read(outbuf, num) with a fresh array.
ReadEnter == \E num \in 0..MaxCount :
    /\ Idle
    /\ rd' = [NoRead EXCEPT !.pc = "size", !.num = num,
                            !.outbuf = NewArray(num)]
    /\ op' = "read"
    /\ arg' = [NoArg EXCEPT !.n = num]
    /\ pre' = cb
    /\ res' = Void
    /\ UNCHANGED <<cb, n, log, ndebug, heap, bufA, bufB>>

\* One statement of read(); none of them writes a member.
ReadStep(pc, f) ==
    /\ rd.pc = pc
    /\ rd' = f
    /\ UNCHANGED <<cb, n, op, arg, pre, res, log, ndebug, heap, bufA, bufB>>

ReadSize == ReadStep("size", read_size(rd, cb))

ReadTail == ReadStep("tail", read_tail(rd, cb))

ReadFirstRun == ReadStep("first_run", read_first_run(rd, cb))

ReadSecondRun == ReadStep("second_run", read_second_run(rd, cb))

\* return ret;
ReadReturn ==
    /\ rd.pc = "return"
    /\ res' = [ret |-> rd.ret, outbuf |-> rd.outbuf]
    /\ rd' = NoRead
    /\ UNCHANGED <<cb, n, op, arg, pre, log, ndebug, heap, bufA, bufB>>

\* The handler runs push_back(v) to completion before the statement rd.pc
\* of the call in progress.
IrqPushBack == \E v \in Value :
    /\ ~Idle
    /\ rd.irq.at = "none"
    /\ cb' = push_back(cb, v)
    /\ rd' = [rd EXCEPT !.irq = [at |-> rd.pc, v |-> v]]
    /\ UNCHANGED <<n, op, arg, pre, res, log, ndebug, heap, bufA, bufB>>

NextIrq ==
    \/ Idle /\ PushBack
    \/ Idle /\ PopFront
    \/ ReadEnter
    \/ ReadSize
    \/ ReadTail
    \/ ReadFirstRun
    \/ ReadSecondRun
    \/ ReadReturn
    \/ IrqPushBack

SpecIrq == Init /\ [][NextIrq]_vars

----------------------------------------------------------------------------
(* Interrupts during pop_front(): the loop's pop_front() statement by      *)
(* statement, the handler's push_back running to completion before any of  *)
(* them or before the return, at most once during one call.  rd.pc is the  *)
(* statement to run next.                                                  *)

\* Fault: the check made on the indices alone.
pop_front_check_noflag(f, s) ==
    [f EXCEPT !.pc = IF s._head # s._tail THEN "pop_advance" ELSE "pop_return"]

\* if (!empty())
pop_front_check(f, s) ==
    [f EXCEPT !.pc = IF ~empty(s) THEN "pop_advance" ELSE "pop_return"]

\* _tail = (_tail + 1) % _cap;
pop_front_advance(s) == [s EXCEPT !._tail = Inc(s._tail, s._cap)]

\* _full = false;
pop_front_clear_full(s) == [s EXCEPT !._full = FALSE]

\* The loop calls pop_front().
PopEnter ==
    /\ Idle
    /\ rd' = [NoRead EXCEPT !.pc = "pop_check"]
    /\ op' = "pop_front"
    /\ arg' = NoArg
    /\ pre' = cb
    /\ res' = Void
    /\ UNCHANGED <<cb, n, log, ndebug, heap, bufA, bufB>>

PopCheck ==
    /\ rd.pc = "pop_check"
    /\ rd' = pop_front_check(rd, cb)
    /\ UNCHANGED <<cb, n, op, arg, pre, res, log, ndebug, heap, bufA, bufB>>

PopAdvance ==
    /\ rd.pc = "pop_advance"
    /\ cb' = pop_front_advance(cb)
    /\ rd' = [rd EXCEPT !.pc = "pop_clear_full"]
    /\ UNCHANGED <<n, op, arg, pre, res, log, ndebug, heap, bufA, bufB>>

PopClearFull ==
    /\ rd.pc = "pop_clear_full"
    /\ cb' = pop_front_clear_full(cb)
    /\ rd' = [rd EXCEPT !.pc = "pop_return"]
    /\ UNCHANGED <<n, op, arg, pre, res, log, ndebug, heap, bufA, bufB>>

\* pop_front() returns; rd keeps the interrupt it met until the next call.
PopReturn ==
    /\ rd.pc = "pop_return"
    /\ rd' = [rd EXCEPT !.pc = "idle"]
    /\ UNCHANGED <<cb, n, op, arg, pre, res, log, ndebug, heap, bufA, bufB>>

NextIrqPop ==
    \/ Idle /\ PushBack
    \/ PopEnter
    \/ PopCheck
    \/ PopAdvance
    \/ PopClearFull
    \/ PopReturn
    \/ IrqPushBack

SpecIrqPop == Init /\ [][NextIrqPop]_vars

----------------------------------------------------------------------------
(* The decrement of push_front, pop_back and back() on its own: any        *)
(* capacity a size_t can hold (n) and any index below it (arg.n); the one  *)
(* step evaluates (x - 1 + cap) % cap in size_t and notes the result.      *)

InitDec ==
    /\ n \in 1..(SizeMod - 1)
    /\ ndebug = FALSE
    /\ \E x \in 0..(n - 1) :
          Constructed("index", [NoArg EXCEPT !.n = x], DefaultMembers)

ApplyDec ==
    /\ op = "index"
    /\ op' = "Dec"
    /\ res' = [Void EXCEPT !.ret = Dec(arg.n, n)]
    /\ UNCHANGED <<cb, n, arg, pre, log, ndebug, rd, heap, bufA, bufB>>

NextDec == ApplyDec

SpecDec == InitDec /\ [][NextDec]_vars

----------------------------------------------------------------------------
(* Two buffers: a, a FixedCircularBuffer<T, n>, and b, a CircularBuffer<T>. *)
(* Each vector owns an element array of the heap, named by an id, so that  *)
(* swapping and moving vectors passes arrays on and a copy gets an array   *)
(* of its own.  The calls are a.swap(b), b.swap(a), a.swap(a), b.swap(b),  *)
(* the copy and the move of a into b, and push_back, pop_front, clear,     *)
(* fill and assign on either.  A call that indexes outside the vector's    *)
(* array has undefined behaviour and ends the run.                         *)

\* Largest N of a FixedCircularBuffer<T, N>; the CircularBuffer<T> is
\* constructed with a capacity up to one more.
MaxFixedCap == 1

Copies == {"copy_construct", "copy_assign"}

Moves == {"move_construct", "move_assign"}

Names == {"a", "b"}

\* The object with the elements of its vector in place of the array's id.
Load(h, o) == [o EXCEPT !._buf = h[o._buf]]

\* Fault: swap() that leaves _cap with its object.
swap_keep_cap(objs, x, y) ==
    IF x # y
    THEN [objs EXCEPT ![x] = [objs[y] EXCEPT !._cap = objs[x]._cap],
                      ![y] = [objs[x] EXCEPT !._cap = objs[y]._cap]]
    ELSE objs

\* void swap(CircularBuffer& o), called on objs[x] with o = objs[y]:
\* std::swap of _buf (the vectors exchange their arrays), _cap, _head,
\* _tail and _full unless this == &o.
swap(objs, x, y) ==
    IF x # y
    THEN [objs EXCEPT ![x] = [_buf  |-> objs[y]._buf,
                              _cap  |-> objs[y]._cap,
                              _head |-> objs[y]._head,
                              _tail |-> objs[y]._tail,
                              _full |-> objs[y]._full],
                      ![y] = [_buf  |-> objs[x]._buf,
                              _cap  |-> objs[x]._cap,
                              _head |-> objs[x]._head,
                              _tail |-> objs[x]._tail,
                              _full |-> objs[x]._full]]
    ELSE objs

\* Fault: a copy whose vector refers to the array of the source.
copy_shallow(h, objs, t, s) ==
    [heap |-> h, objs |-> [objs EXCEPT ![t] = objs[s]]]

\* CircularBuffer(const CircularBuffer&) = default and
\* operator=(const CircularBuffer&) = default, objs[t] from objs[s]:
\* memberwise; the vector of t gets the elements of s in its own array.
copy_members(h, objs, t, s) ==
    [heap |-> [h EXCEPT ![objs[t]._buf] = h[objs[s]._buf]],
     objs |-> [objs EXCEPT ![t] = [objs[s] EXCEPT !._buf = objs[t]._buf]]]

\* CircularBuffer(CircularBuffer&&) = default and
\* operator=(CircularBuffer&&) = default, objs[t] from objs[s]:
\* memberwise; the vector of t takes the array of s and the vector of s is
\* left with the elements left; _cap, _head, _tail and _full of s, a
\* size_t or a bool each, stay as they are.
move_members(h, objs, t, s, left) ==
    [heap |-> [h EXCEPT ![objs[t]._buf] = left],
     objs |-> [objs EXCEPT ![t] = objs[s],
                           ![s] = [objs[s] EXCEPT !._buf = objs[t]._buf]]]

\* What a moved-from vector may hold: nothing after move construction;
\* after move assignment nothing, or what the target held if the library
\* moves by exchanging.
MovedFrom(h, objs, t, how) ==
    IF how = "move_construct"
    THEN {<< >>}
    ELSE {<< >>, h[objs[t]._buf]}

Objs == [a |-> bufA, b |-> bufB]

Loaded == [x \in Names |-> Load(heap, Objs[x])]

Other(x) == IF x = "a" THEN "b" ELSE "a"

NoArg2 == [t |-> "a", s |-> "a", v |-> 0]

\* FixedCircularBuffer<T, n> a; CircularBuffer<T> b(nb);
InitTwo ==
    /\ n \in 1..MaxFixedCap
    /\ \E nb \in 1..(MaxFixedCap + 1) :
          /\ heap = [id \in 1..2 |->
                       IF id = 1 THEN CircularBuffer(n)._buf
                                 ELSE CircularBuffer(nb)._buf]
          /\ bufA = [CircularBuffer(n) EXCEPT !._buf = 1]
          /\ bufB = [CircularBuffer(nb) EXCEPT !._buf = 2]
          /\ pre = [a |-> CircularBuffer(n), b |-> CircularBuffer(nb)]
    /\ op = "CircularBuffer"
    /\ arg = NoArg2
    /\ cb = DefaultMembers
    /\ res = Void
    /\ log = << >>
    /\ ndebug = FALSE
    /\ rd = NoRead

\* A call on both objects.  pre keeps both for swap and the source for a
\* copy or a move; log notes a copy until the next call on both.
Call2(name, t, s, r) ==
    /\ Alive
    /\ heap' = r.heap
    /\ bufA' = r.objs.a
    /\ bufB' = r.objs.b
    /\ op' = name
    /\ arg' = [NoArg2 EXCEPT !.t = t, !.s = s]
    /\ pre' = IF name = "swap" THEN Loaded ELSE [Loaded EXCEPT ![t] = NoBuffer]
    /\ log' = IF name \in Copies THEN << "copy" >> ELSE << >>
    /\ UNCHANGED <<cb, n, res, ndebug, rd>>

\* a.swap(b), b.swap(a), a.swap(a), b.swap(b)
Swap2 == \E x \in Names, y \in Names :
    Call2("swap", x, y, [heap |-> heap, objs |-> swap(Objs, x, y)])

\* CircularBuffer<T> b(a); and b = a;
Copy2 == \E how \in Copies :
    Call2(how, "b", "a", copy_members(heap, Objs, "b", "a"))

\* CircularBuffer<T> b(std::move(a)); and b = std::move(a);
Move2 == \E how \in Moves :
    \E left \in MovedFrom(heap, Objs, "b", how) :
        Call2(how, "b", "a", move_members(heap, Objs, "b", "a", left))

\* A call of a member function of one object, which becomes post; pre
\* keeps the other object as it was.
Call1(name, x, v, post) ==
    /\ Alive
    /\ heap' = [heap EXCEPT ![Objs[x]._buf] = post._buf]
    /\ bufA' = IF x = "a" THEN [post EXCEPT !._buf = bufA._buf] ELSE bufA
    /\ bufB' = IF x = "b" THEN [post EXCEPT !._buf = bufB._buf] ELSE bufB
    /\ op' = name
    /\ arg' = [NoArg2 EXCEPT !.t = x, !.s = x, !.v = v]
    /\ pre' = [Loaded EXCEPT ![x] = NoBuffer]
    /\ UNCHANGED <<cb, n, res, log, ndebug, rd>>

\* The call indexes its vector outside the vector's array.
UndefinedCall1(name, x, v) ==
    /\ Alive
    /\ op' = "undefined_behaviour"
    /\ arg' = [NoArg2 EXCEPT !.t = x, !.s = x, !.v = v]
    /\ pre' = Loaded
    /\ UNCHANGED <<cb, n, res, log, ndebug, rd, heap, bufA, bufB>>

\* The element a push through x carries: it tells, wherever it ends up,
\* through which of the two objects it came.  (A fresh array holds T(), 0.)
Tag(x) == IF x = "a" THEN 0 ELSE 1

\* push_back(v) writes _buf[_head].
PushBack2 == \E x \in Names :
    IF Loaded[x]._head \in DOMAIN Loaded[x]._buf
    THEN Call1("push_back", x, Tag(x), push_back(Loaded[x], Tag(x)))
    ELSE UndefinedCall1("push_back", x, Tag(x))

\* pop_front() indexes nothing.
PopFront2 == \E x \in Names :
    Call1("pop_front", x, 0, pop_front(Loaded[x]))

\* clear() indexes nothing.
Clear2 == \E x \in Names :
    Call1("clear", x, 0, clear(Loaded[x]))

\* fill(v) writes the elements the vector holds, whatever their number.
Fill2 == \E x \in Names :
    Call1("fill", x, Tag(x), fill(Loaded[x], Tag(x)))

\* assign(1, v) clears and calls push_back(v) once, writing _buf[0].
Assign2 == \E x \in Names :
    IF 0 \in DOMAIN Loaded[x]._buf
    THEN Call1("assign_n", x, Tag(x), assign_n(Loaded[x], 1, Tag(x)))
    ELSE UndefinedCall1("assign_n", x, Tag(x))

Unary == {"push_back", "pop_front", "clear", "fill", "assign_n"}

NextTwo ==
    \/ Swap2
    \/ Copy2
    \/ Move2
    \/ PushBack2
    \/ PopFront2
    \/ Clear2
    \/ Fill2
    \/ Assign2

SpecTwo == InitTwo /\ [][NextTwo]_vars

----------------------------------------------------------------------------
(* Properties *)

\* The logical contents front to back, as at(0), at(1), ... report them.
Contents(s) == [i \in 1..size(s) |-> at(s, i - 1).value]

\* The contents occupy the end of storage and continue at slot 0.
Wrapped(s) == s._tail + size(s) > s._cap

\* C1: after any sequence of push_back, push_front, pop_front, pop_back,
\* clear, fill and assign on a buffer constructed with capacity n > 0,
\* size() <= capacity() and capacity() is still n.
C1_SizeWithinCapacity ==
    /\ size(cb) <= capacity(cb)
    /\ capacity(cb) = n

C1_Witness ==
    /\ op = "push_back"
    /\ full(pre)
    /\ size(cb) = capacity(cb)
    /\ capacity(cb) = MaxCap
    /\ cb._tail # 0

\* C2: push_back(v) on a full buffer holding e0, e1, ..., e(c-1) leaves it
\* full and holding e1, ..., e(c-1), v: the front element alone is evicted.
C2_PushBackEvictsFront ==
    (op = "push_back" /\ full(pre)) =>
        /\ full(cb)
        /\ size(cb) = capacity(cb)
        /\ Contents(cb) = Tail(Contents(pre)) \o <<arg.v>>

C2_Witness ==
    /\ op = "push_back"
    /\ full(pre)
    /\ pre._cap = 3
    /\ Contents(pre) = <<0, 1, 1>>
    /\ arg.v = 0
    /\ Contents(cb) = <<1, 1, 0>>

\* C3: push_front(v) on a full buffer holding e0, ..., e(c-2), e(c-1) leaves
\* it full and holding v, e0, ..., e(c-2): the back element alone is evicted.
C3_PushFrontEvictsBack ==
    (op = "push_front" /\ full(pre)) =>
        /\ full(cb)
        /\ size(cb) = capacity(cb)
        /\ Contents(cb) =
              <<arg.v>> \o SubSeq(Contents(pre), 1, capacity(pre) - 1)

C3_Witness ==
    /\ op = "push_front"
    /\ full(pre)
    /\ pre._cap = 3
    /\ Contents(pre) = <<0, 0, 1>>
    /\ arg.v = 1
    /\ Contents(cb) = <<1, 0, 0>>

\* C4: in every reachable state empty() == (size() == 0) and
\* full() == (size() == capacity()).
C4_EmptyFullAgreeWithSize ==
    /\ empty(cb) <=> (size(cb) = 0)
    /\ full(cb) <=> (size(cb) = capacity(cb))

C4_Witness ==
    /\ full(cb)
    /\ ~empty(cb)
    /\ cb._head = cb._tail
    /\ cb._tail # 0
    /\ size(cb) = MaxCap

\* C5: in every reachable state, wrapped ones included, read(out, maxCount)
\* returns n = min(maxCount, size()) and out[i] is the element at(i) for
\* every i < n, front to back.
C5_ReadCopiesFrontToBack ==
    (op = "read") =>
        /\ res.ret = Min(arg.n, size(pre))
        /\ \A i \in 0..(res.ret - 1) :
              /\ at(pre, i).has_value
              /\ res.outbuf[i] = at(pre, i).value

C5_Witness ==
    /\ op = "read"
    /\ Wrapped(pre)
    /\ res.ret >= 2
    /\ pre._tail + res.ret > pre._cap
    /\ \E i, j \in 0..(res.ret - 1) : res.outbuf[i] # res.outbuf[j]

\* C6: read() leaves head, tail, the full flag and every storage slot as
\* they were, so a second read() with the same maxCount, made right after
\* the first, returns the same count and the same data.
C6_ReadLeavesBufferAlone ==
    (op = "read") =>
        /\ cb._head = pre._head
        /\ cb._tail = pre._tail
        /\ cb._full = pre._full
        /\ cb._buf = pre._buf
        /\ LET again == read(cb, NewArray(arg.n), arg.n)
           IN  /\ again.ret = res.ret
               /\ again.outbuf = res.outbuf

C6_Witness ==
    /\ op = "read"
    /\ res.ret >= 2
    /\ full(cb)
    /\ Wrapped(cb)
    /\ read(cb, NewArray(arg.n), arg.n).ret = res.ret

\* C7: pop_front() on a non-empty buffer holding e0, e1, ..., e(n-1) leaves
\* e1, ..., e(n-1): size() is n - 1 and full() is false.
C7_PopFrontRemovesFront ==
    (op = "pop_front" /\ size(pre) > 0) =>
        /\ Contents(cb) = Tail(Contents(pre))
        /\ size(cb) = size(pre) - 1
        /\ ~full(cb)

C7_Witness ==
    /\ op = "pop_front"
    /\ full(pre)
    /\ Wrapped(pre)
    /\ Contents(pre) = <<1, 0, 1>>
    /\ Contents(cb) = <<0, 1>>

\* C8: pop_back() on a non-empty buffer holding e0, ..., e(n-2), e(n-1)
\* leaves e0, ..., e(n-2): size() is n - 1 and full() is false.
C8_PopBackRemovesBack ==
    (op = "pop_back" /\ size(pre) > 0) =>
        /\ Contents(cb) = SubSeq(Contents(pre), 1, size(pre) - 1)
        /\ size(cb) = size(pre) - 1
        /\ ~full(cb)

C8_Witness ==
    /\ op = "pop_back"
    /\ full(pre)
    /\ pre._head = 0
    /\ Contents(pre) = <<1, 0, 0>>
    /\ Contents(cb) = <<1, 0>>

\* C9: pop_front() and pop_back() on an empty buffer change nothing: head,
\* tail, the full flag and storage are as before and the buffer is empty.
C9_PopOnEmptyIsNoOp ==
    (op \in Pops /\ size(pre) = 0) =>
        /\ cb._head = pre._head
        /\ cb._tail = pre._tail
        /\ cb._full = pre._full
        /\ cb._buf = pre._buf
        /\ cb._cap = pre._cap
        /\ empty(cb)
        /\ size(cb) = 0

C9_Witness ==
    /\ op \in Pops
    /\ empty(pre)
    /\ pre._head # 0
    /\ pre._cap = MaxCap
    /\ cb = pre

\* C10: in every empty state (freshly constructed, after clear, after the
\* last element was popped from either end) front() and back() are absent,
\* and in every non-empty state both are present.
C10_FrontBackAbsentIffEmpty ==
    /\ (size(cb) = 0) => (front(cb) = nullopt /\ back(cb) = nullopt)
    /\ (size(cb) > 0) => (front(cb).has_value /\ back(cb).has_value)
    /\ (op \in {"CircularBuffer", "clear"}) =>
          (front(cb) = nullopt /\ back(cb) = nullopt)
    /\ (op \in Pops /\ size(pre) = 1) =>
          (front(cb) = nullopt /\ back(cb) = nullopt)

C10_Witness ==
    /\ op = "pop_back"
    /\ size(pre) = 1
    /\ pre._tail # 0
    /\ front(pre).has_value
    /\ front(cb) = nullopt
    /\ back(cb) = nullopt

\* What front() returns after k calls of pop_front().
RECURSIVE PopFrontTimes(_, _)
PopFrontTimes(s, k) == IF k = 0 THEN s ELSE PopFrontTimes(pop_front(s), k - 1)

\* C11: at(i) is absent exactly when i >= size() (so for every i on an
\* empty buffer); otherwise it is the element at logical index i from the
\* front, the one that i calls of pop_front() bring to the front.
C11_AtAbsentIffBeyondSize ==
    \A i \in 0..(MaxCount + 1) :
        /\ (at(cb, i) = nullopt) <=> (i >= size(cb))
        /\ (i < size(cb)) =>
              /\ at(cb, i).has_value
              /\ at(cb, i) = front(PopFrontTimes(cb, i))

C11_Witness ==
    /\ Wrapped(cb)
    /\ cb._cap = 3
    /\ size(cb) = 2
    /\ at(cb, 0) = make_optional(1)
    /\ at(cb, 1) = make_optional(0)
    /\ at(cb, 2) = nullopt

RangeOps == {"CircularBuffer_range", "assign_range"}

\* C12: constructing or assigning from a range of length sz > capacity
\* keeps the last capacity elements of the source, in their order, and the
\* buffer is full.
C12_LongRangeKeepsLastElements ==
    (op \in RangeOps /\ Len(arg.src) > capacity(cb)) =>
        /\ full(cb)
        /\ size(cb) = capacity(cb)
        /\ Contents(cb) =
              SubSeq(arg.src, Len(arg.src) - capacity(cb) + 1, Len(arg.src))

C12_Witness ==
    /\ op = "CircularBuffer_range"
    /\ n = 3
    /\ arg.src = <<1, 0, 0, 1>>
    /\ full(cb)
    /\ Contents(cb) = <<0, 0, 1>>

\* C13: constructing from a range a0, ..., a(n-1) with n <= capacity and
\* then iterating front to back, or indexing 0..n-1, gives a0, ..., a(n-1)
\* in order; size() == n and full() == (n == capacity).
C13_ShortRangeRoundTrip ==
    (op = "CircularBuffer_range" /\ Len(arg.src) <= capacity(cb)) =>
        /\ for_each(cb, begin(cb), end(cb), << >>) = arg.src
        /\ Contents(cb) = arg.src
        /\ size(cb) = Len(arg.src)
        /\ full(cb) <=> (Len(arg.src) = capacity(cb))

C13_Witness ==
    /\ op = "CircularBuffer_range"
    /\ n = 3
    /\ arg.src = <<0, 1, 1>>
    /\ full(cb)
    /\ for_each(cb, begin(cb), end(cb), << >>) = <<0, 1, 1>>

CountValueOps == {"CircularBuffer_value", "FixedCircularBuffer_value", "assign_n"}

\* C14: constructing a buffer of capacity c from (count, value), or calling
\* assign(count, value), leaves min(count, c) copies of value:
\* size() == min(count, c), and full() iff count >= c.
C14_CountValueCopies ==
    (op \in CountValueOps) =>
        LET k == Min(arg.n, capacity(cb))
        IN  /\ size(cb) = k
            /\ Contents(cb) = [i \in 1..k |-> arg.v]
            /\ full(cb) <=> (arg.n >= capacity(cb))

C14_Witness ==
    /\ op = "assign_n"
    /\ full(pre)
    /\ Wrapped(pre)
    /\ capacity(cb) = 3
    /\ arg.n = 2
    /\ arg.v = 1
    /\ Contents(pre) = <<0, 0, 0>>
    /\ Contents(cb) = <<1, 1>>

\* A capacity-c buffer freshly constructed from what the last assign got.
FreshFromArg(c) ==
    IF op = "assign_range"
    THEN CircularBuffer_range(c, arg.src)
    ELSE FixedCircularBuffer_value(c, arg.n, arg.v)

\* C15: assign(...) discards the prior contents: from every prior state the
\* logical contents after assign(src) are those of a freshly constructed
\* buffer of the same capacity built from the same src.
C15_AssignDiscardsPriorContents ==
    (op \in {"assign_range", "assign_n"}) =>
        LET fresh == FreshFromArg(capacity(pre))
        IN  /\ Contents(cb) = Contents(fresh)
            /\ size(cb) = size(fresh)
            /\ full(cb) = full(fresh)
            /\ capacity(cb) = capacity(fresh)

C15_Witness ==
    /\ op = "assign_range"
    /\ full(pre)
    /\ Wrapped(pre)
    /\ capacity(pre) = 3
    /\ Contents(pre) = <<1, 1, 1>>
    /\ arg.src = <<0, 1>>
    /\ Contents(cb) = <<0, 1>>

\* C16: fill(v) from any prior state gives full() == true,
\* size() == capacity() and at(i) == v for every 0 <= i < capacity().
C16_FillMakesFullOfValue ==
    (op = "fill") =>
        /\ full(cb)
        /\ size(cb) = capacity(cb)
        /\ \A i \in 0..(capacity(cb) - 1) : at(cb, i) = make_optional(arg.v)

C16_Witness ==
    /\ op = "fill"
    /\ Wrapped(pre)
    /\ ~full(pre)
    /\ arg.v = 1
    /\ pre._buf = [i \in 0..2 |-> 0]
    /\ at(cb, 2) = make_optional(1)

\* C17: clear() from any state makes the buffer empty (size() == 0, full()
\* false, front() and back() absent) and leaves every storage slot and
\* capacity() as they were.
C17_ClearEmptiesAndKeepsStorage ==
    (op = "clear") =>
        /\ size(cb) = 0
        /\ empty(cb)
        /\ ~full(cb)
        /\ front(cb) = nullopt
        /\ back(cb) = nullopt
        /\ cb._buf = pre._buf
        /\ capacity(cb) = capacity(pre)

C17_Witness ==
    /\ op = "clear"
    /\ full(pre)
    /\ pre._tail # 0
    /\ Contents(pre) = <<1, 0, 1>>
    /\ cb._buf = pre._buf
    /\ empty(cb)

\* C20: in every reachable state, wrapped ones included, the loop from
\* begin() to end() (and from cbegin() to cend()) visits exactly size()
\* elements and the k-th one visited is at(k).
C20_ForwardIterationMatchesAt ==
    LET fwd  == for_each(cb, begin(cb), end(cb), << >>)
        cfwd == for_each(cb, cbegin(cb), cend(cb), << >>)
    IN  /\ Len(fwd) = size(cb)
        /\ Len(cfwd) = size(cb)
        /\ \A k \in 0..(size(cb) - 1) :
              /\ make_optional(fwd[k + 1]) = at(cb, k)
              /\ make_optional(cfwd[k + 1]) = at(cb, k)

C20_Witness ==
    /\ full(cb)
    /\ Wrapped(cb)
    /\ cb._head = cb._tail
    /\ capacity(cb) = 3
    /\ for_each(cb, begin(cb), end(cb), << >>) = <<1, 0, 0>>

\* push_back(1), pop_front(), push_back(2), push_front(3), push_back(4),
\* push_back(5), push_front(6)
Scenario ==
    <<"push_back", "pop_front", "push_back", "push_front",
      "push_back", "push_back", "push_front">>

\* C18 as stated: on an empty buffer of capacity 4 the run push_back(1),
\* pop_front(), push_back(2), push_front(3), push_back(4), push_back(5),
\* push_front(6) gives front() == back() == 1 after the first step, empty
\* after the second, front() == back() == 2 after the third, and finally a
\* full buffer holding 6, 3, 4, 5 front to back.
C18_ScenarioAsStated ==
    (n = 4) =>
        /\ (log = SubSeq(Scenario, 1, 1)) =>
              (front(cb) = make_optional(1) /\ back(cb) = make_optional(1))
        /\ (log = SubSeq(Scenario, 1, 2)) => empty(cb)
        /\ (log = SubSeq(Scenario, 1, 3)) =>
              (front(cb) = make_optional(2) /\ back(cb) = make_optional(2))
        /\ (log = Scenario) => (full(cb) /\ Contents(cb) = <<6, 3, 4, 5>>)

\* C18, amended: the same run and the same three intermediate results; the
\* 2 pushed third is never popped, so the final full buffer holds
\* 6, 3, 2, 4 front to back (push_front(6) evicted the 5 at the back).
C18_ScenarioFinalContents ==
    (n = 4) =>
        /\ (log = SubSeq(Scenario, 1, 1)) =>
              (front(cb) = make_optional(1) /\ back(cb) = make_optional(1))
        /\ (log = SubSeq(Scenario, 1, 2)) => empty(cb)
        /\ (log = SubSeq(Scenario, 1, 3)) =>
              (front(cb) = make_optional(2) /\ back(cb) = make_optional(2))
        /\ (log = Scenario) => (full(cb) /\ Contents(cb) = <<6, 3, 2, 4>>)

C18_Witness ==
    /\ n = 4
    /\ log = Scenario
    /\ full(cb)
    /\ full(pre)
    /\ Contents(pre) = <<3, 2, 4, 5>>
    /\ Contents(cb) = <<6, 3, 2, 4>>

\* C19: most-recent-N retention: from an empty buffer of capacity c, after
\* push_back of v1, ..., vk and no other call, the contents front to back
\* are the last min(k, c) values pushed, in push order (here vi = i).
C19_PushBackKeepsMostRecent ==
    (\A i \in 1..Len(log) : log[i] = "push_back") =>
        LET k == Len(log)
            m == Min(k, capacity(cb))
        IN  /\ size(cb) = m
            /\ Contents(cb) = [i \in 1..m |-> k - m + i]

C19_Witness ==
    /\ n = 3
    /\ Len(log) = 5
    /\ \A i \in 1..Len(log) : log[i] = "push_back"
    /\ Contents(cb) = <<3, 4, 5>>

\* C21: in every reachable state the loop from rbegin() to rend() (and from
\* crbegin() to crend()) visits exactly size() elements, the k-th one
\* visited being at(size() - 1 - k): forward iteration reversed.
C21_ReverseIterationMatchesAt ==
    LET rev  == for_each_reverse(cb, rbegin(cb), rend(cb), << >>)
        crev == for_each_reverse(cb, crbegin(cb), crend(cb), << >>)
        fwd  == for_each(cb, begin(cb), end(cb), << >>)
    IN  /\ Len(rev) = size(cb)
        /\ Len(crev) = size(cb)
        /\ \A k \in 0..(size(cb) - 1) :
              /\ make_optional(rev[k + 1]) = at(cb, size(cb) - 1 - k)
              /\ make_optional(crev[k + 1]) = at(cb, size(cb) - 1 - k)
              /\ rev[k + 1] = fwd[size(cb) - k]

C21_Witness ==
    /\ full(cb)
    /\ Wrapped(cb)
    /\ capacity(cb) = 3
    /\ Contents(cb) = <<1, 0, 0>>
    /\ for_each_reverse(cb, rbegin(cb), rend(cb), << >>) = <<0, 0, 1>>

\* C22: in every reachable state the position of end() exceeds that of
\* begin() by exactly size(), so begin() == end() iff the buffer is empty;
\* on a full buffer, where head == tail, begin() != end().
C22_EndIsBeginPlusSize ==
    /\ end(cb)._pos = begin(cb)._pos + size(cb)
    /\ cend(cb)._pos = cbegin(cb)._pos + size(cb)
    /\ iter_eq(begin(cb), end(cb)) <=> empty(cb)
    /\ iter_eq(cbegin(cb), cend(cb)) <=> empty(cb)
    /\ full(cb) => (cb._head = cb._tail /\ iter_ne(begin(cb), end(cb)))

C22_Witness ==
    /\ full(cb)
    /\ cb._head = cb._tail
    /\ cb._tail = 2
    /\ capacity(cb) = 3
    /\ end(cb)._pos = 5
    /\ iter_ne(begin(cb), end(cb))

\* C27: a buffer constructed with only a capacity n > 0 starts empty:
\* empty() is true, full() false, size() == 0, capacity() == n, and at(i)
\* is absent for every i.
C27_CapacityOnlyStartsEmpty ==
    (op = "CircularBuffer") =>
        /\ n > 0
        /\ empty(cb)
        /\ ~full(cb)
        /\ size(cb) = 0
        /\ capacity(cb) = n
        /\ \A i \in 0..(MaxCount + 1) : at(cb, i) = nullopt

C27_Witness ==
    /\ op = "CircularBuffer"
    /\ n = MaxCap
    /\ capacity(cb) = MaxCap
    /\ DOMAIN cb._buf = 0..(MaxCap - 1)
    /\ empty(cb)

\* C29: in every reachable state 0 <= head < capacity and
\* 0 <= tail < capacity, for every capacity >= 1, capacity 1 included.
C29_IndicesWithinCapacity ==
    /\ capacity(cb) >= 1
    /\ 0 <= cb._head /\ cb._head < capacity(cb)
    /\ 0 <= cb._tail /\ cb._tail < capacity(cb)

C29_Witness ==
    /\ capacity(cb) = 1
    /\ op = "push_front"
    /\ full(pre)
    /\ full(cb)
    /\ cb._head = 0
    /\ cb._tail = 0

ReadResult == [i \in 1..rd.ret |-> rd.outbuf[i - 1]]

\* The first k of a sequence.
Prefix(seq, k) == [i \in 1..k |-> seq[i]]

\* The result is neither the start of the contents before the handler's
\* push_back nor the start of the contents after it.
Torn ==
    /\ rd.ret <= size(pre) => ReadResult # Prefix(Contents(pre), rd.ret)
    /\ rd.ret <= size(cb) => ReadResult # Prefix(Contents(cb), rd.ret)

\* C30: read() is not atomic: with one push_back(v) run by an interrupt
\* during read(), the result is torn only if the push ran on a full buffer
\* between read()'s taking of tail and its first copy, and then it is v
\* followed by the second to the sz-th of the contents before the push;
\* without an interrupt the result is the start of the contents.
C30_TornReadOnlyAcrossFullPush ==
    (rd.pc = "return") =>
        /\ (rd.irq.at = "none") =>
               /\ rd.ret = Min(rd.num, size(cb))
               /\ ReadResult = Prefix(Contents(cb), rd.ret)
        /\ Torn => (rd.irq.at = "first_run" /\ full(pre))
        /\ (rd.irq.at = "first_run" /\ full(pre)) =>
               /\ rd.ret = Min(rd.num, capacity(pre))
               /\ ReadResult =
                      [i \in 1..rd.ret |->
                          IF i = 1 THEN rd.irq.v ELSE Contents(pre)[i]]

\* A torn read of a full wrapped buffer, all of it asked for.
C30_Witness ==
    /\ rd.pc = "return"
    /\ rd.irq.at = "first_run"
    /\ full(pre)
    /\ pre._tail # 0
    /\ rd.num = capacity(pre)
    /\ rd.ret = capacity(pre)
    /\ Torn

\* The vector holds as many elements as the capacity says.
Sound(s) == DOMAIN s._buf = 0..(s._cap - 1)

\* What the member functions report of a buffer.
Observed(s) ==
    [capacity |-> capacity(s),
     size     |-> size(s),
     full     |-> full(s),
     empty    |-> empty(s),
     contents |-> IF Sound(s) THEN Contents(s) ELSE << >>]

\* C23: after x.swap(y) on two buffers in any states and of any capacities
\* the capacity, size, full flag and front-to-back contents of each are
\* those of the other before the call; x.swap(x) changes nothing.
C23_SwapExchangesEverything ==
    (op = "swap") =>
        IF arg.t = arg.s
        THEN Loaded = pre
        ELSE /\ Observed(Loaded.a) = Observed(pre.b)
             /\ Observed(Loaded.b) = Observed(pre.a)

C23_Witness ==
    /\ op = "swap"
    /\ arg.t # arg.s
    /\ Sound(pre.a) /\ Sound(pre.b)
    /\ capacity(pre.a) # capacity(pre.b)
    /\ full(pre.a) # full(pre.b)
    /\ size(pre.a) > 0 /\ size(pre.b) > 0
    /\ Contents(Loaded.a) # Contents(Loaded.b)
    /\ Loaded.a._tail # Loaded.b._tail

\* C24: a copy, constructed or assigned, has the capacity, size, full flag
\* and contents of its source, which it leaves as it was, and no array in
\* common with it: a later push_back, pop_front, clear, fill or assign on
\* either buffer leaves the other as it was.
C24_CopyEqualsSourceAndIsIndependent ==
    /\ (op \in Copies) =>
           /\ Observed(Loaded.b) = Observed(pre.a)
           /\ Loaded.a = pre.a
    /\ bufA._buf # bufB._buf
    /\ (op \in Unary) => Loaded[Other(arg.t)] = pre[Other(arg.t)]

\* After a copy its source was pushed to, and the copy still holds what it
\* held.
C24_Witness ==
    /\ log = << "copy" >>
    /\ op = "push_back"
    /\ arg.t = "a"
    /\ Sound(Loaded.a) /\ Sound(Loaded.b)
    /\ capacity(Loaded.a) = capacity(Loaded.b)
    /\ size(Loaded.b) > 0
    /\ Contents(Loaded.a) # Contents(Loaded.b)

\* C25: after move construction or move assignment the moved-from buffer
\* is empty and its vector still holds capacity() elements, and no later
\* call indexes outside a vector's array.
C25_MovedFromIsEmptyEquivalent ==
    /\ (op \in Moves) => (empty(Loaded.a) /\ Sound(Loaded.a))
    /\ op # "undefined_behaviour"

\* C26: capacity() of the FixedCircularBuffer<T, n> is n in every state.
C26_FixedCapacityIsN == capacity(bufA) = n

\* The sequence the storage holds: slot (tail + i) mod capacity for the
\* i-th element, i < size().
Abs(s) == [i \in 1..size(s) |-> s._buf[(s._tail + (i - 1)) % s._cap]]

\* The bounded deque of capacity c.
abs_push_back(q, c, v) ==
    IF Len(q) = c THEN Append(Tail(q), v) ELSE Append(q, v)

abs_push_front(q, c, v) ==
    IF Len(q) = c THEN <<v>> \o SubSeq(q, 1, c - 1) ELSE <<v>> \o q

abs_pop_front(q) == IF q = << >> THEN q ELSE Tail(q)

abs_pop_back(q) == IF q = << >> THEN q ELSE SubSeq(q, 1, Len(q) - 1)

abs_fill(c, v) == [i \in 1..c |-> v]

RECURSIVE abs_push_all(_, _, _)
abs_push_all(q, c, src) ==
    IF src = << >> THEN q
    ELSE abs_push_all(abs_push_back(q, c, Head(src)), c, Tail(src))

\* The deque after the call noted in op and arg, from the deque q.
AbsStep(q, c) ==
    CASE op = "push_back"    -> abs_push_back(q, c, arg.v)
      [] op = "push_front"   -> abs_push_front(q, c, arg.v)
      [] op = "pop_front"    -> abs_pop_front(q)
      [] op = "pop_back"     -> abs_pop_back(q)
      [] op = "clear"        -> << >>
      [] op = "fill"         -> abs_fill(c, arg.v)
      [] op = "assign_n"     -> abs_push_all(<< >>, c, [i \in 1..arg.n |-> arg.v])
      [] op = "assign_range" -> abs_push_all(<< >>, c, arg.src)
      [] OTHER               -> q

\* C31: the buffer refines a bounded deque: with the state read as the
\* sequence of the slots (tail + i) mod capacity, i < size(), every call
\* steps it as the deque's operation does (push_back appends and drops the
\* first at capacity, push_front prepends and drops the last at capacity,
\* the pops drop the first or last if any, clear empties, fill(v) gives
\* capacity copies of v, assign pushes its source back onto the empty
\* deque, read changes nothing), and head == (tail + size()) mod capacity.
C31_RefinesBoundedDeque ==
    /\ Abs(cb) = AbsStep(Abs(pre), capacity(pre))
    /\ cb._head = (cb._tail + size(cb)) % cb._cap

C31_Witness ==
    /\ op = "push_front"
    /\ full(pre)
    /\ Wrapped(pre)
    /\ capacity(pre) = 3
    /\ Abs(pre)[3] # arg.v
    /\ Abs(pre)[2] # Abs(pre)[3]

\* C32: the flag _full is set only when head == tail; head == tail with
\* the flag clear means no element is resident (size() == 0, front(),
\* back() and at(0) absent); with the flag set the buffer holds capacity
\* elements.
C32_FullFlagOnlyWhereIndicesMeet ==
    /\ cb._full => (cb._head = cb._tail)
    /\ (cb._head = cb._tail /\ ~cb._full) =>
           /\ size(cb) = 0
           /\ front(cb) = nullopt
           /\ back(cb) = nullopt
           /\ at(cb, 0) = nullopt
    /\ (cb._head = cb._tail /\ cb._full) => size(cb) = capacity(cb)

\* The indices meet away from slot 0, once full and once empty.
C32_Witness ==
    /\ cb._head = cb._tail
    /\ cb._head # 0
    /\ pre._head # pre._tail
    /\ \/ op = "push_back" /\ cb._full
       \/ op = "pop_front" /\ ~cb._full

\* C33: in every non-empty state front() is at(0) and back() is
\* at(size() - 1), and for every i < size() both assertions of operator[]
\* hold and it returns the element at(i) returns.
C33_AccessorsAgree ==
    (~empty(cb)) =>
        /\ front(cb) = at(cb, 0)
        /\ back(cb) = at(cb, size(cb) - 1)
        /\ \A i \in 0..(size(cb) - 1) :
               /\ operator_index(cb, i).container_empty
               /\ operator_index(cb, i).index_overflow
               /\ at(cb, i) = make_optional(operator_index(cb, i).value)

C33_Witness ==
    /\ Wrapped(cb)
    /\ size(cb) >= 2
    /\ ~full(cb)
    /\ front(cb) # back(cb)
    /\ back(cb).value # cb._buf[cb._head]
    /\ op = "push_back"

RECURSIVE PopBackTimes(_, _)
PopBackTimes(s, k) == IF k = 0 THEN s ELSE PopBackTimes(pop_back(s), k - 1)

\* C34: from a state with size() == k, j calls of pop_front() (or of
\* pop_back()) leave k - j elements while j < k and an empty buffer from the
\* k-th call on; each single pop takes one element, or none from an empty
\* buffer.
C34_PopsReachEmptyAfterSizeCalls ==
    /\ \A j \in 0..(capacity(cb) + 2) :
           /\ size(PopFrontTimes(cb, j)) = (IF j < size(cb) THEN size(cb) - j ELSE 0)
           /\ size(PopBackTimes(cb, j)) = (IF j < size(cb) THEN size(cb) - j ELSE 0)
           /\ empty(PopFrontTimes(cb, j)) <=> (j >= size(cb))
           /\ empty(PopBackTimes(cb, j)) <=> (j >= size(cb))
    /\ (op \in Pops) =>
           size(cb) = (IF size(pre) = 0 THEN 0 ELSE size(pre) - 1)

\* The pop that empties a buffer of capacity 3 away from slot 0, and two
\* further pops that leave it empty.
C34_Witness ==
    /\ op \in Pops
    /\ size(pre) = 1
    /\ empty(cb)
    /\ cb._head # 0
    /\ capacity(cb) = 3
    /\ empty(PopFrontTimes(cb, 2))

\* The object after the calls of l in turn, the next push carrying k.
RECURSIVE Replay(_, _, _)
Replay(s, l, k) ==
    IF l = << >> THEN s
    ELSE LET c == Head(l)
             t == CASE c = "push_back"  -> push_back(s, k)
                    [] c = "push_front" -> push_front(s, k)
                    [] c = "pop_front"  -> pop_front(s)
                    [] c = "pop_back"   -> pop_back(s)
         IN  Replay(t, Tail(l), IF IsPush(c) THEN k + 1 ELSE k)

\* The object as it was j calls ago in a scripted run.
Before(j) == Replay(CircularBuffer(n), SubSeq(log, 1, Len(log) - j), 1)

\* The last two calls of the run.
LastTwo == SubSeq(log, Len(log) - 1, Len(log))

\* What a push and the pop at the same end make of s.
PushPopBack(s, v) == pop_back(push_back(s, v))
PushPopFront(s, v) == pop_front(push_front(s, v))

\* C35: push_back(v) then pop_back(), and push_front(v) then pop_front(),
\* give back the logical contents and the size exactly if the buffer was
\* not full; on a full buffer the pair leaves capacity() - 1 elements, the
\* element at the far end of the push gone.  Stated of the pair applied to
\* the present object, and of the pair a run has just made.
C35_PushThenPopRestoresUnlessFull ==
    /\ \A v \in Value :
        LET q  == Contents(cb)
            rb == PushPopBack(cb, v)
            rf == PushPopFront(cb, v)
        IN  /\ (Contents(rb) = q) <=> ~full(cb)
            /\ (Contents(rf) = q) <=> ~full(cb)
            /\ (size(rb) = size(cb)) <=> ~full(cb)
            /\ (size(rf) = size(cb)) <=> ~full(cb)
            /\ full(cb) =>
                   /\ size(rb) = capacity(cb) - 1
                   /\ size(rf) = capacity(cb) - 1
                   /\ Contents(rb) = Tail(q)
                   /\ Contents(rf) = SubSeq(q, 1, Len(q) - 1)
    /\ Replay(CircularBuffer(n), log, 1) = cb
    /\ (Len(log) >= 2 /\ LastTwo = <<"push_back", "pop_back">>) =>
           LET b == Before(2)
           IN  /\ (Contents(cb) = Contents(b)) <=> ~full(b)
               /\ (size(cb) = size(b)) <=> ~full(b)
               /\ full(b) => /\ size(cb) = capacity(b) - 1
                              /\ Contents(cb) = Tail(Contents(b))
    /\ (Len(log) >= 2 /\ LastTwo = <<"push_front", "pop_front">>) =>
           LET b == Before(2)
           IN  /\ (Contents(cb) = Contents(b)) <=> ~full(b)
               /\ (size(cb) = size(b)) <=> ~full(b)
               /\ full(b) =>
                      /\ size(cb) = capacity(b) - 1
                      /\ Contents(cb) =
                             SubSeq(Contents(b), 1, Len(Contents(b)) - 1)

\* A run that pushed onto a full, wrapped buffer and popped at the same
\* end: the element at the other end is gone.
C35_Witness ==
    /\ Len(log) >= 2
    /\ LastTwo = <<"push_back", "pop_back">>
    /\ full(Before(2))
    /\ Wrapped(Before(2))
    /\ capacity(cb) = 3
    /\ size(cb) = 2
    /\ Contents(cb) = Tail(Contents(Before(2)))

\* Equal in head, tail, full flag and logical contents.
SameBuffer(s, t) ==
    /\ s._head = t._head
    /\ s._tail = t._tail
    /\ s._full = t._full
    /\ Contents(s) = Contents(t)

\* The interrupted pop_front() has run all its statements.
PopDone == op = "pop_front" /\ rd.pc \in {"pop_return", "idle"}

\* C36: a push_back(v) run by an interrupt at a statement boundary of
\* pop_front() (before the check, between the check and the advance of
\* tail, between the advance and the clearing of the flag, or before the
\* return) leaves head, tail, the flag and the contents as push_back(v)
\* then pop_front() or as pop_front() then push_back(v) leaves them; a
\* pop_front() that met no interrupt leaves what the call as a whole leaves.
C36_InterruptedPopIsSequential ==
    PopDone =>
        IF rd.irq.at = "none"
        THEN cb = pop_front(pre)
        ELSE \/ SameBuffer(cb, pop_front(push_back(pre, rd.irq.v)))
             \/ SameBuffer(cb, push_back(pop_front(pre), rd.irq.v))

\* The push came between the advance of tail and the clearing of the flag
\* of a pop_front() on a full buffer, where the two orders differ.
C36_Witness ==
    /\ PopDone
    /\ rd.irq.at = "pop_clear_full"
    /\ full(pre)
    /\ capacity(pre) >= 2
    /\ pre._tail # 0
    /\ ~SameBuffer(pop_front(push_back(pre, rd.irq.v)),
                   push_back(pop_front(pre), rd.irq.v))

\* x - 1 modulo cap in the integers.
PredMod(x, cap) == (x - 1 + cap) % cap

============================================================================
